---- MODULE Spec2Model ----
(***************************************************************************)
(* Task Manager CLI (src/task_manager.py): the Task record, the            *)
(* TaskManager store with its whole-file JSON persistence, and the         *)
(* operations the menu loop of main() performs on the store.               *)
(*                                                                         *)
(* A Task object is a record; its field addr is the object's identity in   *)
(* the interpreter (the value id(self) returns), which the constructor     *)
(* uses as the task's id when no truthy task_id is passed.  An optional    *)
(* value (Optional[int], a timestamp or None) is a set with at most one    *)
(* element; None is {}.  A timestamp is an integer: 1 is a reading of the  *)
(* clock in this run, 0 a timestamp an earlier run wrote to the document.  *)
(***************************************************************************)
EXTENDS Integers, Sequences, FiniteSets, TLC

\* Bounds of the model.
MaxAddr == 3        \* id(self) returns a value of 1..MaxAddr
MaxTasks == 2       \* add_task is offered while the store holds fewer tasks

Addr == 1..MaxAddr
Times == {1}        \* what datetime.now().isoformat() returns in this run
Ids == 0..MaxAddr
None == {}

Titles == {"A"}
Descriptions == {""}
Priorities == {"low", "high"}

Fields == {"id", "title", "description", "priority", "completed",
           "created_at", "completed_at"}

VARIABLES
    pc,        \* "new" before TaskManager(), then "running"; "crashed" after an uncaught exception
    doc,       \* the backing document tasks.json
    tasks,     \* TaskManager.tasks
    task,      \* main's local `task`: the address of the Task it refers to, 0 when unbound or None
    listed,    \* main's local `tasks`: the list a list_tasks call returned
    last,      \* the last operation: its name, its id argument or result, what it returned
    assigned,  \* the ids add_task has assigned in this run (history)
    warned     \* load_tasks has printed its warning

vars == <<pc, doc, tasks, task, listed, last, assigned, warned>>

-----------------------------------------------------------------------------
(* Task *)

Truthy(task_id) == task_id # None /\ task_id # {0}

\* Task.__init__; self_addr is id(self), now is datetime.now().isoformat()
Task(title, description, priority, task_id, self_addr, now) ==
    [addr         |-> self_addr,
     id           |-> IF Truthy(task_id) THEN CHOOSE i \in task_id : TRUE ELSE self_addr,
     title        |-> title,
     description  |-> description,
     priority     |-> priority,
     completed    |-> FALSE,
     created_at   |-> now,
     completed_at |-> None]

mark_complete(t, now) == [t EXCEPT !.completed = TRUE, !.completed_at = {now}]

mark_incomplete(t) == [t EXCEPT !.completed = FALSE, !.completed_at = None]

\* A JSON object of the document: has is the set of its keys (a key that is
\* absent has its field at a fixed filler value).  isRec = FALSE is an array
\* element that is not an object (a number).
to_dict(t) ==
    [isRec        |-> TRUE,
     has          |-> Fields,
     id           |-> t.id,
     title        |-> t.title,
     description  |-> t.description,
     priority     |-> t.priority,
     completed    |-> t.completed,
     created_at   |-> t.created_at,
     completed_at |-> t.completed_at]

\* The exception from_dict raises on data, "ok" when none: data['title'] is
\* evaluated first and data['id'] after the get() calls.
from_dict_error(data) ==
    IF ~data.isRec THEN "TypeError"
    ELSE IF "title" \notin data.has THEN "KeyError"
    ELSE IF "id" \notin data.has THEN "KeyError"
    ELSE "ok"

from_dict(data, self_addr, now) ==
    LET t == Task(data.title,
                  IF "description" \in data.has THEN data.description ELSE "",
                  IF "priority" \in data.has THEN data.priority ELSE "medium",
                  {data.id}, self_addr, now)
    IN [t EXCEPT
          !.completed    = IF "completed" \in data.has THEN data.completed ELSE FALSE,
          !.created_at   = IF "created_at" \in data.has THEN data.created_at ELSE now,
          !.completed_at = IF "completed_at" \in data.has THEN data.completed_at ELSE None]

-----------------------------------------------------------------------------
(* The backing document *)

Absent == [kind |-> "absent", recs |-> <<>>]

\* What json.load yields is iterated by the list comprehension of load_tasks:
\* the elements of an array; nothing for an empty object.
Elements(d) == IF d.kind = "array" THEN d.recs ELSE <<>>

\* The first exception reading d raises (load_tasks lines 118-120), "ok" when none.
load_error(d) ==
    CASE d.kind = "invalid" -> "JSONDecodeError"
      [] d.kind = "scalar" -> "TypeError"
      [] d.kind = "object" -> "TypeError"
      [] OTHER ->
           LET bad == {i \in 1..Len(Elements(d)) : from_dict_error(Elements(d)[i]) # "ok"}
           IN  IF bad = {} THEN "ok"
               ELSE from_dict_error(Elements(d)[CHOOSE i \in bad : \A j \in bad : i <= j])

\* TaskManager.save_tasks: the document the call writes.
save_tasks(ts) ==
    [kind |-> "array", recs |-> [i \in 1..Len(ts) |-> to_dict(ts[i])]]

-----------------------------------------------------------------------------
(* TaskManager *)

\* The index of the first task with this id, 0 when there is none
\* (the loops of get_task and remove_task).
get_task(ts, task_id) ==
    LET hit == {i \in 1..Len(ts) : ts[i].id = task_id}
    IN  IF hit = {} THEN 0 ELSE CHOOSE i \in hit : \A j \in hit : i <= j

DelAt(s, i) == [j \in 1..(Len(s) - 1) |-> IF j < i THEN s[j] ELSE s[j + 1]]

AddrsOf(ts) == [i \in 1..Len(ts) |-> ts[i].addr]

Range(s) == {s[i] : i \in 1..Len(s)}

\* The addresses of the Task objects something still refers to.
Live == Range(AddrsOf(tasks)) \cup Range(listed.addrs) \cup ({task} \ {0})

\* TaskManager.list_tasks: the store's own list, or a new list of the pending tasks.
list_tasks(show_completed) ==
    IF show_completed
    THEN [kind |-> "alias", addrs |-> <<>>]
    ELSE [kind |-> "copy",
          addrs |-> AddrsOf(SelectSeq(tasks, LAMBDA t : ~t.completed))]

-----------------------------------------------------------------------------
(* The documents a run may start with *)

Element(isRec, has, id, title, description, priority, completed, created_at, completed_at) ==
    [isRec |-> isRec, has |-> has, id |-> id, title |-> title,
     description |-> description, priority |-> priority, completed |-> completed,
     created_at |-> created_at, completed_at |-> completed_at]

\* an array element that is a number
NotARecord == Element(FALSE, {}, 0, "", "", "", FALSE, 0, None)
\* {"title": "A"}
NoIdRec == Element(TRUE, {"title"}, 0, "A", "", "", FALSE, 0, None)
\* {"id": 1}
NoTitleRec == Element(TRUE, {"id"}, 1, "", "", "", FALSE, 0, None)
\* {"id": i, "title": "A"}
MinimalRec(i) == Element(TRUE, {"id", "title"}, i, "A", "", "", FALSE, 0, None)
\* every key, as save_tasks wrote a task in an earlier run
FullRec(i, c) ==
    Element(TRUE, Fields, i, "A", "d", "high", c, 0, IF c THEN {0} ELSE None)
\* {"id": i, ..., "completed": true} with no completed_at key
DoneNoStampRec(i) ==
    Element(TRUE, Fields \ {"completed_at"}, i, "A", "d", "high", TRUE, 0, None)

DocElements ==
    {NotARecord, NoIdRec, NoTitleRec,
     MinimalRec(0), MinimalRec(1), FullRec(1, FALSE), FullRec(2, TRUE),
     DoneNoStampRec(2)}

InitDocs ==
    {Absent}
    \cup {[kind |-> k, recs |-> <<>>] : k \in {"invalid", "scalar", "object", "emptyobject"}}
    \cup {[kind |-> "array", recs |-> r] :
             r \in {<<>>} \cup {<<e>> : e \in DocElements}
                        \cup {<<e, f>> : e \in DocElements, f \in DocElements}}

NoList == [kind |-> "none", addrs |-> <<>>]

Result(op, id, ret) == [op |-> op, id |-> id, ret |-> ret]

Init ==
    /\ pc = "new"
    /\ doc \in InitDocs
    /\ tasks = <<>>
    /\ task = 0
    /\ listed = NoList
    /\ last = Result("init", 0, TRUE)
    /\ assigned = {}
    /\ warned = FALSE

-----------------------------------------------------------------------------
(* TaskManager.__init__ and load_tasks *)

\* os.path.exists is false: self.tasks stays the empty list of __init__.
LoadAbsent ==
    /\ doc.kind = "absent"
    /\ tasks' = <<>>
    /\ pc' = "running"
    /\ last' = Result("load", 0, TRUE)
    /\ UNCHANGED <<doc, warned>>

\* The list comprehension over the parsed document: one new Task per element,
\* each at an address of its own, each with its own reading of the clock.
LoadParsed ==
    /\ doc.kind # "absent"
    /\ load_error(doc) = "ok"
    /\ \E addrs \in [1..Len(Elements(doc)) -> Addr], nows \in [1..Len(Elements(doc)) -> Times] :
          /\ \A i, j \in 1..Len(Elements(doc)) : addrs[i] = addrs[j] => i = j
          /\ tasks' = [i \in 1..Len(Elements(doc)) |->
                          from_dict(Elements(doc)[i], addrs[i], nows[i])]
    /\ pc' = "running"
    /\ last' = Result("load", 0, TRUE)
    /\ UNCHANGED <<doc, warned>>

\* LoadSoftFail with a bug: the fallback also rewrites the document as an empty array.
LoadSoftFail_truncates ==
    /\ doc.kind # "absent"
    /\ load_error(doc) \in {"JSONDecodeError", "KeyError"}
    /\ tasks' = <<>>
    /\ warned' = TRUE
    /\ pc' = "running"
    /\ last' = Result("load", 0, TRUE)
    /\ doc' = save_tasks(<<>>)

\* except (json.JSONDecodeError, KeyError): the warning, and the empty list.
LoadSoftFail ==
    /\ doc.kind # "absent"
    /\ load_error(doc) \in {"JSONDecodeError", "KeyError"}
    /\ tasks' = <<>>
    /\ warned' = TRUE
    /\ pc' = "running"
    /\ last' = Result("load", 0, TRUE)
    /\ doc' = doc

\* Any other exception leaves load_tasks, __init__ and main.
LoadRaises ==
    /\ doc.kind # "absent"
    /\ load_error(doc) \notin {"ok", "JSONDecodeError", "KeyError"}
    /\ tasks' = <<>>
    /\ pc' = "crashed"
    /\ last' = Result("load", 0, FALSE)
    /\ UNCHANGED <<doc, warned>>

\* TaskManager.__init__: a new store, in a new process, reads the document.
load_tasks ==
    /\ pc = "new"
    /\ (LoadAbsent \/ LoadParsed \/ LoadSoftFail \/ LoadRaises)
    /\ UNCHANGED <<task, listed, assigned>>

-----------------------------------------------------------------------------
(* The store's operations, as the menu loop of main() calls them *)

\* TaskManager.add_task, and main's `task = manager.add_task(...)`
add_task(title, description, priority) ==
    /\ pc = "running"
    /\ Len(tasks) < MaxTasks
    /\ \E self_addr \in Addr \ Live, now \in Times :
          LET t == Task(title, description, priority, None, self_addr, now)
          IN  /\ tasks' = Append(tasks, t)
              /\ doc' = save_tasks(tasks')
              /\ task' = self_addr
              /\ last' = Result("add", t.id, TRUE)
              /\ assigned' = assigned \cup {t.id}
    /\ UNCHANGED <<pc, listed, warned>>

\* remove_task with a bug: save_tasks is called after the loop, found or not.
remove_task_always_saves(task_id) ==
    /\ pc = "running"
    /\ LET i == get_task(tasks, task_id)
       IN  /\ tasks' = IF i # 0 THEN DelAt(tasks, i) ELSE tasks
           /\ doc' = save_tasks(tasks')
           /\ last' = Result("remove", task_id, i # 0)
    /\ UNCHANGED <<pc, task, listed, assigned, warned>>

\* TaskManager.remove_task
remove_task(task_id) ==
    /\ pc = "running"
    /\ LET i == get_task(tasks, task_id)
       IN  IF i # 0
           THEN /\ tasks' = DelAt(tasks, i)
                /\ doc' = save_tasks(tasks')
                /\ last' = Result("remove", task_id, TRUE)
           ELSE /\ UNCHANGED <<tasks, doc>>
                /\ last' = Result("remove", task_id, FALSE)
    /\ UNCHANGED <<pc, task, listed, assigned, warned>>

\* MarkComplete with a bug: the call of manager.save_tasks() is missing.
MarkComplete_no_save(task_id) ==
    /\ pc = "running"
    /\ LET i == get_task(tasks, task_id)
       IN  IF i # 0
           THEN /\ \E now \in Times :
                      tasks' = [tasks EXCEPT ![i] = mark_complete(@, now)]
                /\ task' = tasks[i].addr
                /\ last' = Result("complete", task_id, TRUE)
           ELSE /\ tasks' = tasks
                /\ task' = 0
                /\ last' = Result("complete", task_id, FALSE)
    /\ UNCHANGED <<pc, doc, listed, assigned, warned>>

\* main, choice 4: get_task, mark_complete, save_tasks
MarkComplete(task_id) ==
    /\ pc = "running"
    /\ LET i == get_task(tasks, task_id)
       IN  IF i # 0
           THEN /\ \E now \in Times :
                      tasks' = [tasks EXCEPT ![i] = mark_complete(@, now)]
                /\ doc' = save_tasks(tasks')
                /\ task' = tasks[i].addr
                /\ last' = Result("complete", task_id, TRUE)
           ELSE /\ UNCHANGED <<tasks, doc>>
                /\ task' = 0
                /\ last' = Result("complete", task_id, FALSE)
    /\ UNCHANGED <<pc, listed, assigned, warned>>

\* main, choice 5: get_task, mark_incomplete, save_tasks
MarkIncomplete(task_id) ==
    /\ pc = "running"
    /\ LET i == get_task(tasks, task_id)
       IN  IF i # 0
           THEN /\ tasks' = [tasks EXCEPT ![i] = mark_incomplete(@)]
                /\ doc' = save_tasks(tasks')
                /\ task' = tasks[i].addr
                /\ last' = Result("incomplete", task_id, TRUE)
           ELSE /\ UNCHANGED <<tasks, doc>>
                /\ task' = 0
                /\ last' = Result("incomplete", task_id, FALSE)
    /\ UNCHANGED <<pc, listed, assigned, warned>>

\* main, choices 2 and 3: `tasks = manager.list_tasks(show_completed=...)`
ViewTasks(show_completed) ==
    /\ pc = "running"
    /\ listed' = list_tasks(show_completed)
    /\ last' = Result("list", 0, show_completed)
    /\ UNCHANGED <<pc, doc, tasks, task, assigned, warned>>

\* A caller that kept the list list_tasks returned deletes its first element
\* (`del returned[0]`): of the store's own list when that is what was returned.
CallerDeletes ==
    /\ pc = "running"
    /\ \/ /\ listed.kind = "alias"
          /\ tasks # <<>>
          /\ tasks' = Tail(tasks)
          /\ listed' = listed
       \/ /\ listed.kind = "copy"
          /\ listed.addrs # <<>>
          /\ listed' = [listed EXCEPT !.addrs = Tail(@)]
          /\ tasks' = tasks
    /\ last' = Result("caller", 0, TRUE)
    /\ UNCHANGED <<pc, doc, task, assigned, warned>>

\* The loading of the document and the store's mutating operations, as main
\* calls them (choices 1, 4, 5, 6).  The list choices change neither the store
\* nor the document; they are part of NextCaller.
Next ==
    \/ load_tasks
    \/ \E title \in Titles, description \in Descriptions, priority \in Priorities :
          add_task(title, description, priority)
    \/ \E task_id \in Ids : remove_task(task_id)
    \/ \E task_id \in Ids : MarkComplete(task_id)
    \/ \E task_id \in Ids : MarkIncomplete(task_id)

Spec == Init /\ [][Next]_vars

\* The same with the list choices (2, 3) and a caller that changes the list
\* it was given.
NextCaller ==
    \/ Next
    \/ \E show_completed \in BOOLEAN : ViewTasks(show_completed)
    \/ CallerDeletes

SpecCaller == Init /\ [][NextCaller]_vars

-----------------------------------------------------------------------------
(* Save, then Load into a new store: the tasks are drawn, not built by a run *)

RTTitles == {"A", "B"}

RTTask(addr, id, title, priority, completed, created_at) ==
    [addr |-> addr, id |-> id, title |-> title, description |-> "",
     priority |-> priority, completed |-> completed, created_at |-> created_at,
     completed_at |-> IF completed THEN {1} ELSE None]

RTTaskAt(addr) ==
    {RTTask(addr, id, title, priority, completed, created_at) :
        id \in Ids, title \in RTTitles, priority \in Priorities,
        completed \in BOOLEAN, created_at \in {0, 1}}

RTTasks ==
    {<<>>} \cup {<<t>> : t \in RTTaskAt(1)}
           \cup {<<t, u>> : t \in RTTaskAt(1), u \in RTTaskAt(2)}

InitRT ==
    /\ pc = "memory"
    /\ tasks \in RTTasks
    /\ doc = Absent
    /\ task = 0
    /\ listed = NoList
    /\ last = Result("init", 0, TRUE)
    /\ assigned = {}
    /\ warned = FALSE

\* save_tasks of the store that holds the drawn tasks; a new store is built next.
RTSave ==
    /\ pc = "memory"
    /\ doc' = save_tasks(tasks)
    /\ pc' = "new"
    /\ last' = Result("save", 0, TRUE)
    /\ UNCHANGED <<tasks, task, listed, assigned, warned>>

NextRT == RTSave \/ load_tasks

SpecRT == InitRT /\ [][NextRT]_vars

-----------------------------------------------------------------------------
(* The claims *)

NoDupIds(ts) == \A i, j \in 1..Len(ts) : ts[i].id = ts[j].id => i = j

\* The ids of the document's records are pairwise distinct.
DistinctDocIds(d) ==
    \A i, j \in 1..Len(Elements(d)) : Elements(d)[i].id = Elements(d)[j].id => i = j

\* C1: no two tasks of the store share an id: so after the load of a document
\* whose ids are pairwise distinct, and every Add, Remove and SetCompletion
\* of a store without a shared id leaves it without one.
C1_UniqueIds ==
    [][ /\ (pc = "new" /\ pc' = "running" /\ DistinctDocIds(doc)) => NoDupIds(tasks')
        /\ (pc = "running" /\ NoDupIds(tasks)) => NoDupIds(tasks') ]_vars

\* C2: an id Add assigned in this run is never assigned by a later Add,
\* also not after the task that held it was removed.
C2_IdNeverReused ==
    [][ (last'.op = "add" /\ tasks' # tasks) => last'.id \notin assigned ]_vars

\* The seven fields of to_dict agree (the address of the object is not one).
SameFields(t, u) ==
    /\ t.id = u.id
    /\ t.title = u.title
    /\ t.description = u.description
    /\ t.priority = u.priority
    /\ t.completed = u.completed
    /\ t.created_at = u.created_at
    /\ t.completed_at = u.completed_at

SameTasks(ts, us) ==
    /\ Len(ts) = Len(us)
    /\ \A i \in 1..Len(ts) : SameFields(ts[i], us[i])

\* C3: Save then Load into a new store gives the same tasks in the same
\* order, field for field, for any ids (0 too), completed or not.
C3_RoundTrip ==
    [][ (pc = "new" /\ pc' # "new") => (pc' = "running" /\ SameTasks(tasks, tasks')) ]_vars

\* C4: every task the store holds has completed true exactly when its
\* completed_at is not None, after the load and after every operation.
C4_CompletedIffStamp ==
    pc = "running" =>
        \A i \in 1..Len(tasks) : tasks[i].completed <=> tasks[i].completed_at # None

\* The document exists and is not an array of records with id and title.
CorruptDoc(d) ==
    \/ d.kind \in {"invalid", "scalar", "object", "emptyobject"}
    \/ /\ d.kind = "array"
       /\ \E i \in 1..Len(d.recs) :
             \/ ~d.recs[i].isRec
             \/ "id" \notin d.recs[i].has
             \/ "title" \notin d.recs[i].has

\* C5: the load of such a document leaves the store empty and raises nothing.
C5_CorruptLoadIsSoft ==
    (last.op = "load" /\ CorruptDoc(doc)) => (pc = "running" /\ tasks = <<>>)

\* The document is the array of the store's tasks, in order, every field of
\* every task written with the task's value.
DocHoldsTasks ==
    /\ doc.kind = "array"
    /\ Len(doc.recs) = Len(tasks)
    /\ \A i \in 1..Len(tasks) :
          /\ doc.recs[i].isRec
          /\ doc.recs[i].has = Fields
          /\ SameFields(doc.recs[i], tasks[i])

\* C6: when Add, a Remove that removed, or a SetCompletion that found its
\* task has returned, the document holds the store's tasks as they are.
C6_SavedOnMutation ==
    (pc = "running" /\ (last.op = "add" \/ (last.op \in {"remove", "complete", "incomplete"} /\ last.ret)))
        => DocHoldsTasks

C6_Witness ==
    /\ last.op = "complete"
    /\ last.ret
    /\ Len(tasks) = 2
    /\ tasks[2].completed
    /\ DocHoldsTasks

\* C7: changing the list ListAll returned does not change the tasks the
\* store holds.
C7_ListIsACopy ==
    [][ last'.op = "caller" => tasks' = tasks ]_vars

\* C8: when Remove(id) has returned true, no task with that id is left: Get(id)
\* finds none (and so a second Remove(id) returns false).
C8_RemovedIsGone ==
    (last.op = "remove" /\ last.ret) => get_task(tasks, last.id) = 0

\* C9: Remove and SetCompletion (with the Get it starts with) of an id no held
\* task has return false (Get: None, which main's `task` then is), raise
\* nothing and leave the store's tasks and the document as they were.
C9_NotFoundChangesNothing ==
    [][ ( /\ pc = "running"
          /\ last'.op \in {"remove", "complete", "incomplete"}
          /\ get_task(tasks, last'.id) = 0 )
        => ( /\ ~last'.ret
             /\ last'.op # "remove" => task' = 0
             /\ tasks' = tasks
             /\ doc' = doc
             /\ pc' = "running" ) ]_vars

\* a Remove that found nothing, of a store whose document is not what
\* save_tasks would write
C9_Witness ==
    /\ last.op = "remove"
    /\ ~last.ret
    /\ tasks # <<>>
    /\ get_task(tasks, last.id) = 0
    /\ doc # save_tasks(tasks)

\* C10: the load that falls back to the empty list leaves the document as it
\* was; the Add that follows writes the document anew, with the one task then
\* in memory and nothing of what it held.
C10_FallbackThenOverwrite ==
    [][ /\ (pc = "new" /\ warned') => (doc' = doc /\ tasks' = <<>> /\ pc' = "running")
        /\ (pc = "running" /\ warned /\ CorruptDoc(doc) /\ last'.op = "add")
              => ( /\ tasks = <<>>
                   /\ doc'.kind = "array"
                   /\ Len(doc'.recs) = 1
                   /\ Len(tasks') = 1
                   /\ SameFields(doc'.recs[1], tasks'[1])
                   /\ doc'.recs[1].has = Fields
                   /\ \A i \in 1..Len(doc.recs) : doc.recs[i] # doc'.recs[1] ) ]_vars

\* the first Add after a fallback has returned
C10_Witness ==
    /\ warned
    /\ last.op = "add"
    /\ Cardinality(assigned) = 1
    /\ Len(tasks) = 1
    /\ DocHoldsTasks

====
